---- MODULE Spec2Model ----
(***************************************************************************)
(* A model of ztpserver/topology.py: the resource pool (Resources), the    *)
(* pattern catalog (Topology, Pattern, InterfacePattern) and the module    *)
(* level reload of the catalog (neighbordb, clear, loads).                 *)
(*                                                                         *)
(* Python values.  A str is a sequence of tokens: a token is a run of      *)
(* letters ("Ethernet", "spine"), one digit or one punctuation character.  *)
(* '' is the empty sequence, None is the reserved one-token value None.    *)
(***************************************************************************)
EXTENDS Integers, Sequences, FiniteSets, TLC

None == <<"None">>

\* bool(x) of a value that is None or a str
Truthy(x) == x # None /\ x # << >>

VARIABLES
    file,       \* the pool document on disk: [ok, items]; items is contents.items()
    last,       \* the last completed Resources call (sequential callers)
    pc,         \* concurrent callers: position of each caller in allocate
    pnode,      \* concurrent callers: node.systemmac of the call
    contents,   \* concurrent callers: the document the caller holds in memory
    pkey,       \* concurrent callers: the local `key` of allocate
    pret,       \* concurrent callers: what the call returned or raised
    stale,      \* concurrent callers: the caller loaded while the other held an unstored load
    pat,        \* a Pattern object
    mnode,      \* the Node handed to Pattern.match_node: [systemmac, neighbors]
    mframe,     \* the running call of Pattern.match_node
    entry,      \* node.neighbors as it was when Pattern.match_node was entered
    neighbordb, \* the module level Topology
    mres,       \* the last call of neighbordb.match_node and its outcome
    ld,         \* the running call of the module level loads
    old,        \* neighbordb as it was when loads was entered
    seen,       \* neighbordb as a reader last found it
    call,       \* a function of the module and the arguments it is called with
    ret         \* what the call returned or raised

resVars == <<file, last>>
raceVars == <<pc, pnode, contents, pkey, pret, stale>>
patVars == <<pat, mnode, mframe, entry>>
topoVars == <<neighbordb, mres>>
loadVars == <<ld, old, seen>>
fnVars == <<call, ret>>
vars == <<file, last, pc, pnode, contents, pkey, pret, stale,
          pat, mnode, mframe, entry, neighbordb, mres, ld, old, seen,
          call, ret>>

\* the value of a variable in a specification that does not use it
Unused == None

PatUnused == pat = Unused /\ mnode = Unused /\ mframe = Unused /\ entry = Unused
TopoUnused == neighbordb = Unused /\ mres = Unused
LoadUnused == ld = Unused /\ old = Unused /\ seen = Unused
FnUnused == call = Unused /\ ret = Unused

------------------------------------------------------------------------------
(* Bounds and input sets of the resource pool *)

MaxKeys == 3

\* allocation keys; '' is a key whose truth value is False
PoolKeys == {<< >>, <<"k1">>, <<"k2">>}
Macs == {<<"d1">>, <<"d2">>}
\* Node.systemmac is kwargs.get('systemmac'): None when the report has none
Systemmacs == Macs \cup {None}

Item(k, v) == [k |-> k, v |-> v]

RECURSIVE Docs(_)
\* the documents of exactly n distinct keys, each unallocated or owned
Docs(n) ==
    IF n = 0 THEN {<< >>}
    ELSE { Append(d, Item(k, v)) :
             d \in Docs(n - 1), k \in PoolKeys, v \in Systemmacs }

DistinctKeys(items) ==
    \A i, j \in 1..Len(items) : items[i].k = items[j].k => i = j

PoolDocs ==
    { d \in UNION { Docs(n) : n \in 1..MaxKeys } : DistinctKeys(d) }

------------------------------------------------------------------------------
(* Resources *)

\* Resources.load / Resources.loads: the document, or DataFileError
load(f) == IF f.ok THEN [exc |-> "", contents |-> f.items]
           ELSE [exc |-> "DataFileError", contents |-> << >>]

\* Resources.dump through open(file_path, 'w'): the whole document is rewritten
dump(items) == [ok |-> TRUE, items |-> items]

\* [x[0] for x in contents.items() if x[1] == node.systemmac]
RECURSIVE matches(_, _)
matches(items, mac) ==
    IF items = << >> THEN << >>
    ELSE (IF Head(items).v = mac THEN <<Head(items).k>> ELSE << >>)
         \o matches(Tail(items), mac)

\* the body of lookup after the load: key = matches[0] if matches else None
lookup_key(items, mac) ==
    LET m == matches(items, mac) IN IF m # << >> THEN m[1] ELSE None

\* Resources.lookup
lookup(f, mac) ==
    LET l == load(f) IN
    IF l.exc # "" THEN [exc |-> l.exc, ret |-> None]
    ELSE [exc |-> "", ret |-> lookup_key(l.contents, mac)]

\* first_free that takes the last unallocated item
last_free(items) ==
    IF \E i \in 1..Len(items) : items[i].v = None
    THEN CHOOSE i \in 1..Len(items) :
            /\ items[i].v = None
            /\ \A j \in (i + 1)..Len(items) : items[j].v # None
    ELSE 0

\* next(x[0] for x in contents.items() if x[1] is None): the index of the
\* first unallocated item, 0 for StopIteration
first_free(items) ==
    IF \E i \in 1..Len(items) : items[i].v = None
    THEN CHOOSE i \in 1..Len(items) :
            /\ items[i].v = None
            /\ \A j \in 1..(i - 1) : items[j].v # None
    ELSE 0

\* allocate with the exhausted pool swallowed: next(..., None) and a write
allocate_tail_nofail(items, mac) ==
    LET i == first_free(items) IN
    IF i = 0
    THEN [exc |-> "", ret |-> None, wrote |-> TRUE,
          contents |-> Append(items, Item(None, mac))]
    ELSE [exc |-> "", ret |-> items[i].k, wrote |-> TRUE,
          contents |-> [items EXCEPT ![i].v = mac]]

\* lines 203-210 of allocate on the loaded contents: choose, assign, dump
allocate_tail(items, mac) ==
    LET i == first_free(items) IN
    IF i = 0
    THEN [exc |-> "ResourcesError", ret |-> None, wrote |-> FALSE,
          contents |-> items]
    ELSE [exc |-> "", ret |-> items[i].k, wrote |-> TRUE,
          contents |-> [items EXCEPT ![i].v = mac]]

\* Resources.allocate, run without another caller in between
allocate(f, mac) ==
    LET m == lookup(f, mac) IN
    IF m.exc # "" THEN [exc |-> m.exc, ret |-> None, file |-> f]
    ELSE IF Truthy(m.ret) THEN [exc |-> "", ret |-> m.ret, file |-> f]
    ELSE LET l == load(f)
             t == allocate_tail(l.contents, mac) IN
         IF l.exc # "" THEN [exc |-> l.exc, ret |-> None, file |-> f]
         ELSE [exc |-> t.exc, ret |-> t.ret,
               file |-> IF t.wrote THEN dump(t.contents) ELSE f]

------------------------------------------------------------------------------
(* Sequential callers of the pool: one call at a time *)

NoCall == [op |-> "none", mac |-> None, exc |-> "", ret |-> None,
           before |-> [ok |-> TRUE, items |-> << >>]]

Procs == {1, 2}

RaceIdle ==
    /\ pc = [p \in Procs |-> "idle"]
    /\ pnode = [p \in Procs |-> None]
    /\ contents = [p \in Procs |-> << >>]
    /\ pkey = [p \in Procs |-> None]
    /\ pret = [p \in Procs |-> [exc |-> "", ret |-> None]]
    /\ stale = [p \in Procs |-> FALSE]

InitRes ==
    /\ file \in { [ok |-> o, items |-> d] : o \in BOOLEAN, d \in PoolDocs }
    /\ last = NoCall
    /\ RaceIdle
    /\ PatUnused /\ TopoUnused /\ LoadUnused /\ FnUnused

Allocate(mac) ==
    LET r == allocate(file, mac) IN
    /\ file' = r.file
    /\ last' = [op |-> "allocate", mac |-> mac, exc |-> r.exc, ret |-> r.ret,
                before |-> file]
    /\ UNCHANGED <<raceVars, patVars, topoVars, loadVars, fnVars>>

Lookup(mac) ==
    LET r == lookup(file, mac) IN
    /\ last' = [op |-> "lookup", mac |-> mac, exc |-> r.exc, ret |-> r.ret,
                before |-> file]
    /\ UNCHANGED <<file, raceVars, patVars, topoVars, loadVars, fnVars>>

NextRes ==
    \/ \E mac \in Systemmacs : Allocate(mac)
    \/ \E mac \in Systemmacs : Lookup(mac)

SpecRes == InitRes /\ [][NextRes]_vars

\* the keys of a document whose value is mac
KeysOf(f, mac) == { i \in 1..Len(f.items) : f.items[i].v = mac }

\* every device identity is the value of at most one key
AtMostOneKey(f) == \A mac \in Macs : Cardinality(KeysOf(f, mac)) <= 1

\* C2: allocate is idempotent: a second allocate(pool, device) right after
\* the first returns (or raises) the same and leaves the document as the
\* first call left it.
C2_AllocateIdempotent ==
    [][ ( /\ last.op = "allocate"
          /\ last'.op = "allocate"
          /\ last'.mac = last.mac )
        => ( /\ last'.ret = last.ret
             /\ last'.exc = last.exc
             /\ file' = file ) ]_vars

\* C3: allocate for a device that holds no key, in a readable pool with no
\* unallocated key, raises ResourcesError (not DataFileError) and the
\* document is not modified.
C3_ExhaustedFails ==
    ( /\ last.op = "allocate"
      /\ last.before.ok
      /\ KeysOf(last.before, last.mac) = {}
      /\ KeysOf(last.before, None) = {} )
    => ( /\ last.exc = "ResourcesError"
         /\ last.exc # "DataFileError"
         /\ file = last.before )

C3_Witness ==
    /\ last.op = "allocate"
    /\ last.before.ok
    /\ last.mac \in Macs
    /\ KeysOf(last.before, last.mac) = {}
    /\ KeysOf(last.before, None) = {}
    /\ Len(last.before.items) >= 2
    /\ last.exc = "ResourcesError"

\* C4: non-overlapping allocate and lookup calls keep every device identity
\* the value of at most one key.
C4_AtMostOneKeyKept ==
    [][ AtMostOneKey(file) => AtMostOneKey(file') ]_vars

\* the last call was an allocate that stored a document other than the one
\* it loaded
NewAllocation == last.op = "allocate" /\ last.exc = "" /\ file # last.before

\* C15: a new allocation takes the first key in document order whose value
\* is unallocated, and the stored document differs from the loaded one only
\* in the value of that key, which goes from unallocated to the device's
\* identity: same keys in the same order, every other value as it was.
C15_FirstFreeOnly ==
    NewAllocation =>
        \E i \in 1..Len(last.before.items) :
            /\ last.before.items[i].v = None
            /\ \A j \in 1..(i - 1) : last.before.items[j].v # None
            /\ last.ret = last.before.items[i].k
            /\ Len(file.items) = Len(last.before.items)
            /\ file.items[i] = Item(last.ret, last.mac)
            /\ \A j \in 1..Len(file.items) :
                  j # i => file.items[j] = last.before.items[j]

\* an owned key, then two unallocated keys: the first of the two is taken
C15_Witness ==
    /\ NewAllocation
    /\ Len(last.before.items) = 3
    /\ last.before.items[1].v = <<"d2">>
    /\ last.before.items[2].v = None
    /\ last.before.items[3].v = None
    /\ last.mac = <<"d1">>
    /\ file.items[2].v = <<"d1">>
    /\ file.items[3].v = None

\* the value the document records for key k
OwnerOf(f, k) ==
    LET i == CHOOSE i \in 1..Len(f.items) : f.items[i].k = k IN f.items[i].v

\* C20: when allocate returns key k to a device the stored document maps k
\* to the identity of that device, and k is not the key that the call
\* before it returned to a device of another identity; the identity may be
\* null.
C20_KeyOfOneDevice ==
    [][ (last'.op = "allocate" /\ last'.exc = "")
        => /\ OwnerOf(file', last'.ret) = last'.mac
           /\ ( /\ last.op = "allocate" /\ last.exc = ""
                /\ last.mac # last'.mac )
              => last'.ret # last.ret ]_vars

------------------------------------------------------------------------------
(* Concurrent callers of the pool: two allocate calls, one per caller, that *)
(* interleave at their file operations: the load inside lookup, the load of *)
(* allocate, and the dump.                                                  *)

\* last.before keeps the document as the two callers find it
InitRace ==
    /\ file \in { [ok |-> o, items |-> d] : o \in BOOLEAN, d \in PoolDocs }
    /\ last = [NoCall EXCEPT !.before = file]
    /\ RaceIdle
    /\ PatUnused /\ TopoUnused /\ LoadUnused /\ FnUnused

Other(p) == CHOOSE q \in Procs : q # p

\* resources.allocate(pool, node) is entered
Call(p, mac) ==
    /\ pc[p] = "idle"
    /\ pc' = [pc EXCEPT ![p] = "lookup"]
    /\ pnode' = [pnode EXCEPT ![p] = mac]
    /\ UNCHANGED <<file, last, contents, pkey, pret, stale, patVars, topoVars, loadVars, fnVars>>

\* line 195-198: match = self.lookup(pool, node); if match: return match
LookupLoad(p) ==
    /\ pc[p] = "lookup"
    /\ LET m == lookup(file, pnode[p]) IN
       IF m.exc # "" \/ Truthy(m.ret)
       THEN /\ pc' = [pc EXCEPT ![p] = "done"]
            /\ pret' = [pret EXCEPT ![p] = m]
       ELSE /\ pc' = [pc EXCEPT ![p] = "load"]
            /\ pret' = pret
    /\ UNCHANGED <<file, last, pnode, contents, pkey, stale, patVars, topoVars, loadVars, fnVars>>

\* line 201-207: contents = self.load(...); key = next(...); contents[key] = mac
AllocLoad(p) ==
    /\ pc[p] = "load"
    /\ LET l == load(file)
           t == allocate_tail(l.contents, pnode[p]) IN
       IF l.exc # "" \/ t.exc # ""
       THEN /\ pc' = [pc EXCEPT ![p] = "done"]
            /\ pret' = [pret EXCEPT ![p] =
                          [exc |-> IF l.exc # "" THEN l.exc ELSE t.exc,
                           ret |-> None]]
            /\ UNCHANGED <<contents, pkey, stale>>
       ELSE /\ pc' = [pc EXCEPT ![p] = "store"]
            /\ contents' = [contents EXCEPT ![p] = t.contents]
            /\ pkey' = [pkey EXCEPT ![p] = t.ret]
            /\ stale' = IF pc[Other(p)] = "store"
                        THEN [q \in Procs |-> TRUE] ELSE stale
            /\ pret' = pret
    /\ UNCHANGED <<file, last, pnode, patVars, topoVars, loadVars, fnVars>>

\* a store that re-reads the document and takes another key when the chosen
\* one has been taken meanwhile
Store_checked(p) ==
    /\ pc[p] = "store"
    /\ LET t == allocate_tail(file.items, pnode[p]) IN
       /\ t.exc = ""
       /\ file' = dump(t.contents)
       /\ pret' = [pret EXCEPT ![p] = [exc |-> "", ret |-> t.ret]]
    /\ pc' = [pc EXCEPT ![p] = "done"]
    /\ UNCHANGED <<last, pnode, contents, pkey, stale, patVars, topoVars, loadVars, fnVars>>

\* line 209-210: self.dump(contents, open(file_path, 'w')); return key
Store(p) ==
    /\ pc[p] = "store"
    /\ file' = dump(contents[p])
    /\ pret' = [pret EXCEPT ![p] = [exc |-> "", ret |-> pkey[p]]]
    /\ pc' = [pc EXCEPT ![p] = "done"]
    /\ UNCHANGED <<last, pnode, contents, pkey, stale, patVars, topoVars, loadVars, fnVars>>

NextRace ==
    \/ \E p \in Procs, mac \in Systemmacs : Call(p, mac)
    \/ \E p \in Procs : LookupLoad(p)
    \/ \E p \in Procs : AllocLoad(p)
    \/ \E p \in Procs : Store(p)

SpecRace == InitRace /\ [][NextRace]_vars

\* both callers are two distinct devices whose loads of allocate both came
\* before either dump, and both calls have returned
Raced(p, q) ==
    /\ p # q
    /\ pc[p] = "done" /\ pc[q] = "done"
    /\ stale[p] /\ stale[q]
    /\ pnode[p] \in Macs /\ pnode[q] \in Macs
    /\ pnode[p] # pnode[q]

\* C5: when two allocate calls of two distinct devices both load the pool
\* before either stores it, both return the same key, and the final document
\* records one of the two devices as the owner of that key: the other holds
\* a key the document gives to somebody else (lost update).
C5_LostUpdate ==
    \A p, q \in Procs :
        Raced(p, q) =>
            /\ pret[p].exc = "" /\ pret[q].exc = ""
            /\ pret[p].ret = pret[q].ret
            /\ OwnerOf(file, pret[p].ret) \in {pnode[p], pnode[q]}
            /\ \E loser \in {p, q} : OwnerOf(file, pret[loser].ret) # pnode[loser]

C5_Witness ==
    \E p, q \in Procs :
        /\ Raced(p, q)
        /\ pret[p].ret = pret[q].ret
        /\ OwnerOf(file, pret[p].ret) = pnode[q]
        /\ KeysOf(file, pnode[p]) = {}

\* both callers are the same device, the pool they found gave no device two
\* keys and has no key whose truth value is False, and both calls returned
SameDevice(p, q) ==
    /\ p # q
    /\ pc[p] = "done" /\ pc[q] = "done"
    /\ pnode[p] \in Macs /\ pnode[q] = pnode[p]
    /\ pret[p].exc = "" /\ pret[q].exc = ""
    /\ AtMostOneKey(last.before)
    /\ \A i \in 1..Len(file.items) : Truthy(file.items[i].k)

\* C19: two concurrent allocate calls for the same device return the same
\* key under every interleaving of their loads and stores, and leave the
\* device the value of exactly one key.
C19_SameDeviceOneKey ==
    \A p, q \in Procs :
        SameDevice(p, q) =>
            /\ pret[p].ret = pret[q].ret
            /\ Cardinality(KeysOf(file, pnode[p])) = 1

------------------------------------------------------------------------------
(* str operations on token sequences *)

Digits == {"0", "1", "2", "3", "4", "5", "6", "7", "8", "9"}

\* runs of letters that occur in the documents and reports of the model
Words == {"Ethernet", "Management", "any", "none", "spine", "leaf", "uplink",
          "tag", "exact", "regex", "includes", "excludes", "name", "x"}

\* tokens whose first character is in the class of DEVICENAME_PARSER_RE,
\* [Ethernet|\d+(?/)(?\d+)|\*]: E t h e r n | digit + ( ? / ) *
DevicenameLook == Digits \cup {"Ethernet", "tag", "exact", "excludes", "regex",
                               "none", "name", "|", "+", "(", "?",
                               "/", ")", "*"}

\* tokens whose first character is in the class of ANYDEVICE_PARSER_RE, [any]
AnydeviceLook == {"any", "none", "name"}

DigitVal(t) ==
    CASE t = "0" -> 0 [] t = "1" -> 1 [] t = "2" -> 2 [] t = "3" -> 3
      [] t = "4" -> 4 [] t = "5" -> 5 [] t = "6" -> 6 [] t = "7" -> 7
      [] t = "8" -> 8 [] OTHER -> 9

DigitTok(n) == CHOOSE t \in Digits : DigitVal(t) = n

\* sep in s, for a one-character sep
Has(s, sep) == \E i \in 1..Len(s) : s[i] = sep

RECURSIVE str_split(_, _)
\* s.split(sep) for a one-character sep
str_split(s, sep) ==
    IF Has(s, sep)
    THEN LET i == CHOOSE i \in 1..Len(s) :
                    s[i] = sep /\ \A j \in 1..(i - 1) : s[j] # sep
         IN <<SubSeq(s, 1, i - 1)>> \o str_split(SubSeq(s, i + 1, Len(s)), sep)
    ELSE <<s>>

\* s[i] is a ':' that the lookahead (?=[...]) accepts
SplitsAt(s, i, look) == s[i] = ":" /\ i < Len(s) /\ s[i + 1] \in look

RECURSIVE re_split(_, _)
\* re.compile(r":(?=[...])").split(s), look the tokens the class accepts
re_split(s, look) ==
    IF \E i \in 1..Len(s) : SplitsAt(s, i, look)
    THEN LET i == CHOOSE i \in 1..Len(s) :
                    /\ SplitsAt(s, i, look)
                    /\ \A j \in 1..(i - 1) : ~SplitsAt(s, j, look)
         IN <<SubSeq(s, 1, i - 1)>> \o re_split(SubSeq(s, i + 1, Len(s)), look)
    ELSE <<s>>

\* int(s) succeeds
IsInt(s) == s # << >> /\ \A i \in 1..Len(s) : s[i] \in Digits

RECURSIVE IntOf(_)
IntOf(s) ==
    IF s = << >> THEN 0
    ELSE IntOf(SubSeq(s, 1, Len(s) - 1)) * 10 + DigitVal(s[Len(s)])

RECURSIVE StrOf(_)
\* '%s' % n
StrOf(n) ==
    IF n < 10 THEN <<DigitTok(n)>>
    ELSE StrOf(n \div 10) \o <<DigitTok(n % 10)>>

\* the longest prefix of s without a letter
RECURSIVE NoLetterPrefix(_)
NoLetterPrefix(s) ==
    IF s = << >> \/ Head(s) \in Words THEN << >>
    ELSE <<Head(s)>> \o NoLetterPrefix(Tail(s))

Ok(v) == [exc |-> "", val |-> v]
Raise(e, v) == [exc |-> e, val |-> v]

------------------------------------------------------------------------------
(* InterfacePattern.range.  A definition that uses an intermediate value    *)
(* more than once takes it as a parameter of a second definition.           *)

\* range_span that leaves out the index stop
range_span_exclusive(start, stop) ==
    Ok([n \in 1..(stop - start) |-> <<"Ethernet">> \o StrOf(start + n - 1)])

\* line 495-496: the names of the indices start..stop
range_span(start, stop) ==
    Ok([n \in 1..(stop + 1 - start) |-> <<"Ethernet">> \o StrOf(start + n - 1)])

\* line 493-498 with parts = index.split('-')
range_index_parts(index, parts) ==
    IF ~Has(index, "-") THEN Ok(<< <<"Ethernet">> \o index >>)
    ELSE IF Len(parts) # 2 THEN Raise("ValueError", << >>)
    ELSE IF ~IsInt(parts[1]) \/ ~IsInt(parts[2]) THEN Raise("ValueError", << >>)
    ELSE range_span(IntOf(parts[1]), IntOf(parts[2]))

\* line 493-498, one element of indicies
range_index(index) == range_index_parts(index, str_split(index, "-"))

range_join(one, rest) ==
    IF rest.exc # "" THEN rest ELSE Ok(one.val \o rest.val)

RECURSIVE range_loop(_)

range_cons(one, tail) ==
    IF one.exc # "" THEN one ELSE range_join(one, range_loop(tail))

\* line 491-499: the loop over indicies
range_loop(indicies) ==
    IF indicies = << >> THEN Ok(<< >>)
    ELSE range_cons(range_index(Head(indicies)), Tail(indicies))

\* InterfacePattern.range
range(interface_range) ==
    IF interface_range = None THEN Ok(<< >>)
    ELSE IF interface_range = << >> \/ Head(interface_range) # "Ethernet"
         THEN Ok(<<interface_range>>)
    ELSE \* re.split("[a-zA-Z]*", interface_range)[1].split(',')
         range_loop(str_split(NoLetterPrefix(Tail(interface_range)), ","))

------------------------------------------------------------------------------
(* Documents.  A dict with str keys is a function on the keys present; the  *)
(* value of an interface entry is a str or a dict:                          *)
(*   [t |-> "str", s], [t |-> "dict", device, port, tags]                   *)

EmptyDict == [k \in {} |-> None]

\* dict.get(key)
Get(d, key) == IF key \in DOMAIN d THEN d[key] ELSE None

\* a.update(b)
Update(a, b) ==
    [k \in DOMAIN a \cup DOMAIN b |-> IF k \in DOMAIN b THEN b[k] ELSE a[k]]

\* the dict without the keys, for keys that may be absent
Without(d, keys) == [k \in DOMAIN d \ keys |-> d[k]]

\* one interface entry of a pattern document: {key: values}
Intf(key, values) == [key |-> key, values |-> values]

StrV(s) == [t |-> "str", s |-> s]
DictV(device, port, tags) ==
    [t |-> "dict", device |-> device, port |-> port, tags |-> tags]

------------------------------------------------------------------------------
(* InterfacePattern and Pattern: construction *)

InterfacePattern_init(interface, device, port, tags, interfaces, ports) ==
    IF interfaces.exc # "" THEN Raise(interfaces.exc, None)
    ELSE IF ports.exc # "" THEN Raise(ports.exc, None)
    ELSE Ok([interface |-> interface, interfaces |-> interfaces.val,
             device |-> device, port |-> port, ports |-> ports.val,
             tags |-> IF tags = None THEN << >> ELSE tags])

\* InterfacePattern.__init__
InterfacePattern(interface, device, port, tags) ==
    InterfacePattern_init(interface, device, port, tags,
                          range(interface), range(port))

\* line 418 with pt = port.split(':')
split_tags(device, pt) ==
    IF Len(pt) # 2 THEN Raise("ValueError", <<None, None, None>>)
    ELSE Ok(<<device, pt[1], pt[2]>>)

\* line 415-418 with parts the result of the split that is unpacked
split_parts(parts) ==
    IF Len(parts) # 2 THEN Raise("ValueError", <<None, None, None>>)
    ELSE IF Has(parts[2], ":")
         THEN split_tags(parts[1], str_split(parts[2], ":"))
    ELSE Ok(<<parts[1], parts[2], None>>)

\* line 414-417: DEVICENAME_PARSER_RE.split, on ValueError ANYDEVICE_PARSER_RE
device_port_parts(s, first) ==
    IF Len(first) = 2 THEN first ELSE re_split(s, AnydeviceLook)

\* line 413-418: the device:port[:tags] string
parse_device_port(values) ==
    IF values.t # "str" THEN Raise("TypeError", <<None, None, None>>)
    ELSE split_parts(device_port_parts(values.s,
                                       re_split(values.s, DevicenameLook)))

\* values == word or device == word
IsWord(values, word) ==
    \/ values.t = "str" /\ values.s = word
    \/ values.t = "dict" /\ values.device = word

\* line 401-418: device, port, tags
device_port_tags(values) ==
    IF IsWord(values, <<"any">>) THEN Ok(<< <<"any">>, <<"any">>, None >>)
    ELSE IF IsWord(values, <<"none">>) THEN Ok(<<None, None, None>>)
    ELSE parse_device_port(values)

\* line 421-422: perform variable substitution
substituted(variables, device) ==
    IF device \notin {None, <<"any">>} /\ device \in DOMAIN variables
    THEN variables[device] ELSE device

parse_interface_args(variables, interface, dpt) ==
    IF dpt.exc # "" THEN Raise(dpt.exc, <<interface, None, None, None>>)
    ELSE Ok(<<interface, substituted(variables, dpt.val[1]),
              dpt.val[2], dpt.val[3]>>)

\* Pattern._parse_interface: (interface, device, port, tags)
parse_interface(variables, interface, values) ==
    parse_interface_args(variables, interface, device_port_tags(values))

append_interface(obj, rest) ==
    IF rest.exc # "" THEN rest ELSE Ok(<<obj>> \o rest.val)

RECURSIVE add_interfaces(_, _)

\* Pattern.add_interface, then the rest of the list
add_interface(variables, obj, tail) ==
    IF obj.exc # "" THEN Raise(obj.exc, << >>)
    ELSE append_interface(obj.val, add_interfaces(variables, tail))

add_interface_args(variables, args, tail) ==
    IF args.exc # "" THEN Raise(args.exc, << >>)
    ELSE add_interface(variables,
                       InterfacePattern(args.val[1], args.val[2],
                                        args.val[3], args.val[4]),
                       tail)

\* Pattern.add_interfaces: the list of InterfacePattern
add_interfaces(variables, interfaces) ==
    IF interfaces = << >> THEN Ok(<< >>)
    ELSE add_interface_args(variables,
                            parse_interface(variables, Head(interfaces).key,
                                            Head(interfaces).values),
                            Tail(interfaces))

NoPattern == [name |-> None, definition |-> None, node |-> None,
              variables |-> EmptyDict, interfaces |-> << >>]

\* kwargs.get('variables') or dict()
Pattern_variables(pattern) ==
    IF "variables" \in pattern.has THEN pattern.variables ELSE EmptyDict

Pattern_init(pattern, interfaces) ==
    IF interfaces.exc # "" THEN Raise(interfaces.exc, NoPattern)
    ELSE Ok([name |-> pattern.name,
             definition |-> pattern.definition,
             node |-> IF "node" \in pattern.has THEN pattern.node ELSE None,
             variables |-> Pattern_variables(pattern),
             interfaces |-> interfaces.val])

\* Pattern(**pattern): pattern is a document entry, a dict given by the keys
\* it has (has) and their values
Pattern(pattern) ==
    IF ~({"name", "definition"} \subseteq pattern.has)
    THEN Raise("TypeError", NoPattern)
    ELSE Pattern_init(pattern,
                      IF "interfaces" \in pattern.has
                      THEN add_interfaces(Pattern_variables(pattern),
                                          pattern.interfaces)
                      ELSE Ok(<< >>))

\* InterfacePattern.serialize: the keys device, port and tags of obj; a key
\* obj does not have reads None
InterfacePattern_serialize(self) ==
    IF self.device = None THEN DictV(<<"none">>, None, self.tags)
    ELSE DictV(self.device, self.port, self.tags)

\* Pattern.serialize
Pattern_serialize(self) ==
    [has |-> {"name", "definition", "variables", "interfaces"}
             \cup (IF Truthy(self.node) THEN {"node"} ELSE {}),
     name |-> self.name, definition |-> self.definition, node |-> self.node,
     variables |-> self.variables,
     interfaces |-> [i \in 1..Len(self.interfaces) |->
                        Intf(self.interfaces[i].interface,
                             InterfacePattern_serialize(self.interfaces[i]))]]

\* Pattern.deserialize on a Pattern object
Pattern_deserialize(data) ==
    Pattern_init(data,
                 IF "interfaces" \in data.has
                 THEN add_interfaces(Pattern_variables(data),
                                     data.interfaces)
                 ELSE Ok(<< >>))

------------------------------------------------------------------------------
(* Functions and InterfacePattern: matching.  A neighbor table (the        *)
(* OrderedCollection node.neighbors) is the sequence of its items          *)
(* [interface, nbrs], nbrs the list of Neighbor(device, port).             *)

\* characters of the class [\'|\"] that occur in the model
Quotes == {"'", "|"}

RECURSIVE WordPrefixLen(_)
\* the length of the longest prefix matching \w+
WordPrefixLen(s) ==
    IF s = << >> \/ Head(s) \notin (Words \cup Digits) THEN 0
    ELSE 1 + WordPrefixLen(Tail(s))

\* s[j] closes the call: a quote followed by ")" after at least one character
ClosesAt(s, n, j) == j >= n + 4 /\ j < Len(s) /\ s[j] \in Quotes /\ s[j + 1] = ")"

FUNC_RE_found(s, n, j) ==
    [matched |-> TRUE, function |-> SubSeq(s, 1, n),
     arg |-> SubSeq(s, n + 3, j - 1)]

FUNC_RE_groups(s, n) ==
    IF /\ n >= 1
       /\ Len(s) >= n + 5
       /\ s[n + 1] = "("
       /\ s[n + 2] \in Quotes
       /\ \E j \in 1..Len(s) : ClosesAt(s, n, j)
    THEN FUNC_RE_found(s, n, CHOOSE j \in 1..Len(s) :
                                /\ ClosesAt(s, n, j)
                                /\ \A k \in 1..(j - 1) : ~ClosesAt(s, n, k))
    ELSE [matched |-> FALSE, function |-> << >>, arg |-> << >>]

\* FUNC_RE.match(pattern): the groups function and arg, or no match
FUNC_RE_match(s) == FUNC_RE_groups(s, WordPrefixLen(s))

\* arg in value, on tokens
Includes(arg, value) ==
    \E i \in 0..(Len(value) - Len(arg)) : SubSeq(value, i + 1, i + Len(arg)) = arg

\* class Functions; regex for an argument without metacharacters
Functions(method, arg, value) ==
    CASE method = <<"exact">> -> arg = value
      [] method = <<"regex">> ->
            Len(arg) <= Len(value) /\ SubSeq(value, 1, Len(arg)) = arg
      [] method = <<"includes">> -> Includes(arg, value)
      [] OTHER -> ~Includes(arg, value)

FunctionNames == {<<"exact">>, <<"regex">>, <<"includes">>, <<"excludes">>}

\* line 527, 529: method and arg
resolve_match(pattern, match) ==
    [method |-> IF match.matched THEN match.function ELSE <<"exact">>,
     arg |-> IF match.matched THEN match.arg ELSE pattern]

\* line 526
resolve_pattern(pattern) == resolve_match(pattern, FUNC_RE_match(pattern))

\* line 525: variables.get(self.device) or self.device
device_pattern(self, looked) == IF Truthy(looked) THEN looked ELSE self.device

\* line 525-529: the method and argument a device specifier resolves to
resolve_device(self, variables) ==
    resolve_pattern(device_pattern(self, Get(variables, self.device)))

\* line 528, 530: getattr(Functions, method) and the call
call_function(r, device) ==
    IF r.method \notin FunctionNames THEN Raise("AttributeError", FALSE)
    ELSE Ok(Functions(r.method, r.arg, device))

\* InterfacePattern.match_device
match_device(self, device, variables) ==
    IF self.device = None THEN Ok(FALSE)
    ELSE IF self.device = <<"any">> THEN Ok(TRUE)
    ELSE call_function(resolve_device(self, variables), device)

\* InterfacePattern.match_port
match_port(self, port) ==
    IF (self.port = None /\ self.device = <<"any">>) \/ self.port = <<"any">>
    THEN TRUE
    ELSE IF self.port = None /\ self.device = None THEN FALSE
    ELSE \E i \in 1..Len(self.ports) : self.ports[i] = port

\* neighbors(): the keys, in order
Keys(neighbors) == [i \in 1..Len(neighbors) |-> neighbors[i].interface]

\* interface in neighbors
HasKey(neighbors, interface) ==
    \E i \in 1..Len(neighbors) : neighbors[i].interface = interface

\* neighbors(interface)
NbrsOf(neighbors, interface) ==
    neighbors[CHOOSE i \in 1..Len(neighbors) :
                 neighbors[i].interface = interface].nbrs

\* del neighbors[interface]
DelKey(neighbors, interface) ==
    SelectSeq(neighbors, LAMBDA e : e.interface # interface)

\* line 509-513 on one interface: some neighbor in nbrs is accepted
accepts_some(self, variables, nbrs) ==
    \E i \in 1..Len(nbrs) :
        /\ match_device(self, nbrs[i].device, variables).val
        /\ match_port(self, nbrs[i].port)

accepts(self, neighbors, variables, interface) ==
    accepts_some(self, variables, NbrsOf(neighbors, interface))

\* line 502-505: the candidate interfaces
candidates(self, neighbors) ==
    IF self.interface = <<"any">> THEN Keys(neighbors)
    ELSE SelectSeq(self.interfaces, LAMBDA x : HasKey(neighbors, x))

\* match_result that discards a partial match for the interface any too
match_result_strict(self, interfaces, found) ==
    IF found # interfaces THEN Ok(<< >>)
    ELSE Ok(IF found = << >> THEN << >> ELSE <<found[1]>>)

\* match_result that keeps a partial match of a declared range
match_result_lenient(self, interfaces, found) ==
    Ok(IF found = << >> THEN << >> ELSE <<found[1]>>)

\* line 514-516 with found the list matches
match_result(self, interfaces, found) ==
    IF found # interfaces /\ self.interface # <<"any">> THEN Ok(<< >>)
    ELSE \* matches[0:1]
         Ok(IF found = << >> THEN << >> ELSE <<found[1]>>)

\* line 507-516; the call of match_device raises on the first neighbor met
match_candidates(self, neighbors, variables, interfaces) ==
    IF /\ \E i \in 1..Len(interfaces) :
             NbrsOf(neighbors, interfaces[i]) # << >>
       /\ match_device(self, << >>, variables).exc # ""
    THEN Raise("AttributeError", << >>)
    ELSE match_result(self, interfaces,
            SelectSeq(interfaces,
                      LAMBDA x : accepts(self, neighbors, variables, x)))

\* InterfacePattern.match_neighbors
match_neighbors(self, neighbors, variables) ==
    match_candidates(self, neighbors, variables, candidates(self, neighbors))

------------------------------------------------------------------------------
(* Pattern.match_node.  A frame is the state of one call: the working table *)
(* neighbors, the dict `variables` it was handed (the caller's object), the *)
(* node's own table, the index of the next InterfacePattern, and what each  *)
(* evaluated InterfacePattern returned.                                     *)

\* node.neighbors.copy()
copy(neighbors) == neighbors

\* line 430: the call is entered
enter(self, node_neighbors, variables) ==
    [status |-> IF self.interfaces = << >> THEN "True" ELSE "run",
     i |-> 1,
     neighbors |-> copy(node_neighbors),
     node_neighbors |-> node_neighbors,
     variables |-> variables,
     claimed |-> << >>]

RECURSIVE DelKeys(_, _)
DelKeys(neighbors, ms) ==
    IF ms = << >> THEN neighbors
    ELSE DelKeys(DelKey(neighbors, Head(ms)), Tail(ms))

\* the deletions when neighbors is node.neighbors itself and not a copy
del_matches_aliased(frame, ms) ==
    [frame EXCEPT !.neighbors = DelKeys(@, ms),
                  !.node_neighbors = DelKeys(@, ms)]

\* the loop without the deletions
del_matches_skipped(frame, ms) == frame

\* line 449-451: for match in matches: del neighbors[match]
del_matches(frame, ms) ==
    [frame EXCEPT !.neighbors = DelKeys(@, ms)]

\* the loop goes on to the next InterfacePattern, or is over
advance(self, frame) ==
    [frame EXCEPT !.i = @ + 1,
                  !.status = IF frame.i = Len(self.interfaces)
                             THEN "True" ELSE "run"]

\* the device-none check that goes on to the next InterfacePattern when the
\* interface is absent, instead of returning
none_check_continue(self, frame) ==
    IF HasKey(frame.neighbors, self.interfaces[frame.i].interface)
    THEN [frame EXCEPT !.status = "False"]
    ELSE advance(self, frame)

\* line 437-439: return intf_pattern.interface not in neighbors
none_check(self, frame) ==
    [frame EXCEPT !.status =
        IF ~HasKey(frame.neighbors, self.interfaces[frame.i].interface)
        THEN "True" ELSE "False"]

\* line 443-451 with m the result of match_neighbors
match_outcome(self, frame, m) ==
    IF m.exc # "" THEN [frame EXCEPT !.status = m.exc]
    ELSE IF m.val = << >>
         THEN [frame EXCEPT !.status = "False", !.claimed = Append(@, m.val)]
    ELSE advance(self, [del_matches(frame, m.val) EXCEPT
                            !.claimed = Append(@, m.val)])

\* line 442
match_updated(self, frame, intf_pattern) ==
    match_outcome(self, frame,
        match_neighbors(intf_pattern, frame.neighbors, frame.variables))

\* line 436-451 for one InterfacePattern
match_intf(self, frame, intf_pattern) ==
    IF intf_pattern.device = None THEN none_check(self, frame)
    ELSE \* line 441: variables.update(self.variables)
         match_updated(self,
             [frame EXCEPT !.variables = Update(@, self.variables)],
             intf_pattern)

\* line 432-451: one iteration of the loop over self.interfaces
match_iter(self, frame) == match_intf(self, frame, self.interfaces[frame.i])

RECURSIVE match_run(_, _)
match_run(self, frame) ==
    IF frame.status # "run" THEN frame
    ELSE match_run(self, match_iter(self, frame))

\* Pattern.match_node(node, variables): the frame at the return
Pattern_match_node(self, node_neighbors, variables) ==
    match_run(self, enter(self, node_neighbors, variables))

------------------------------------------------------------------------------
(* Topology *)

\* Topology.__init__ without contents
EmptyTopology ==
    [variables |-> EmptyDict, globals |-> << >>, nodes |-> EmptyDict]

\* get_patterns that also offers the global patterns to a bound device
get_patterns_with_globals(self, node) ==
    IF node.systemmac \in DOMAIN self.nodes
    THEN <<self.nodes[node.systemmac]>> \o self.globals
    ELSE self.globals

\* Topology.get_patterns
get_patterns(self, node) ==
    IF node.systemmac \in DOMAIN self.nodes
    THEN <<self.nodes[node.systemmac]>>
    ELSE self.globals

\* line 328-332 with frame the call of pattern.match_node at its return; acc
\* holds the dict self.variables, the node's table, the matches and the
\* patterns evaluated
record_match(pattern, acc, frame) ==
    [exc |-> IF frame.status \in {"True", "False"} THEN "" ELSE frame.status,
     variables |-> frame.variables,
     node_neighbors |-> frame.node_neighbors,
     matches |-> IF frame.status = "True"
                 THEN Append(acc.matches, pattern) ELSE acc.matches,
     evaluated |-> Append(acc.evaluated, pattern)]

\* line 328: pattern.match_node(node, self.variables)
match_pattern(pattern, acc) ==
    record_match(pattern, acc,
        Pattern_match_node(pattern, acc.node_neighbors, acc.variables))

RECURSIVE match_patterns(_, _)
\* line 326-332: the loop over the candidate patterns
match_patterns(patterns, acc) ==
    IF patterns = << >> \/ acc.exc # "" THEN acc
    ELSE match_patterns(Tail(patterns), match_pattern(Head(patterns), acc))

\* Topology.match_node: the outcome, with self.variables and node.neighbors
\* as the call leaves them
Topology_match_node(self, node) ==
    match_patterns(get_patterns(self, node),
                   [exc |-> "", variables |-> self.variables,
                    node_neighbors |-> node.neighbors,
                    matches |-> << >>, evaluated |-> << >>])

\* line 289-292 for one item
substitute_item(self, item) ==
    [item EXCEPT !.device = substituted(self.variables, @)]

\* line 288-292: Topology variables substituted into the device specifiers
substitute(self, obj) ==
    [obj EXCEPT !.interfaces =
        [i \in 1..Len(obj.interfaces) |-> substitute_item(self, obj.interfaces[i])]]

\* line 298-301
store_pattern(self, pattern, obj) ==
    IF "node" \in pattern.has
    THEN [self EXCEPT !.nodes = Update(@, [k \in {obj.node} |-> obj])]
    ELSE [self EXCEPT !.globals = Append(@, obj)]

\* line 285-301 with obj the outcome of Pattern(**pattern)
register(self, pattern, obj) ==
    IF obj.exc = "TypeError" THEN [exc |-> "", self |-> self]
    ELSE IF obj.exc # "" THEN [exc |-> obj.exc, self |-> self]
    ELSE [exc |-> "",
          self |-> store_pattern(self, pattern, substitute(self, obj.val))]

\* Topology.add_pattern
add_pattern(self, pattern) == register(self, pattern, Pattern(pattern))

\* line 273-279: self.variables from the document, reserved words dropped
deserialize_variables(self, doc) ==
    [self EXCEPT !.variables = Without(doc.variables, {<<"any">>, <<"none">>})]

RECURSIVE add_patterns(_, _)

add_rest(r, tail) == IF r.exc # "" THEN r ELSE add_patterns(r.self, tail)

\* line 281-282
add_patterns(self, patterns) ==
    IF patterns = << >> THEN [exc |-> "", self |-> self]
    ELSE add_rest(add_pattern(self, Head(patterns)), Tail(patterns))

\* Topology.deserialize
deserialize(self, doc) ==
    add_patterns(deserialize_variables(self, doc), doc.patterns)

\* Topology(contents)
Topology(doc) == deserialize(EmptyTopology, doc)

------------------------------------------------------------------------------
(* Input sets of the matching engine *)

E1 == <<"Ethernet", "1">>
E2 == <<"Ethernet", "2">>
spine1 == <<"spine", "1">>
leaf1 == <<"leaf", "1">>
d1 == <<"d1">>
d2 == <<"d2">>

\* Node.Neighbor
Neighbor(device, port) == [device |-> device, port |-> port]

\* the neighbor lists reported on one interface
NbrLists == { <<Neighbor(spine1, E1)>>,
              <<Neighbor(leaf1, E1)>>,
              <<Neighbor(leaf1, E2), Neighbor(spine1, E1)>> }

\* Node.add_neighbors: the tables over the interfaces Ethernet1, Ethernet2,
\* in either order of insertion
Tables ==
    {<< >>}
    \cup { <<[interface |-> i, nbrs |-> l]>> : i \in {E1, E2}, l \in NbrLists }
    \cup { <<[interface |-> p[1], nbrs |-> l], [interface |-> p[2], nbrs |-> m]>> :
             p \in {<<E1, E2>>, <<E2, E1>>}, l \in NbrLists, m \in NbrLists }

\* Node.__init__
Node(systemmac, neighbors) == [systemmac |-> systemmac, neighbors |-> neighbors]

\* a pattern entry of a topology document with all of its keys but node
GlobalEntry(name, variables, interfaces) ==
    [has |-> {"name", "definition", "variables", "interfaces"},
     name |-> name, definition |-> <<"x">>, node |-> None,
     variables |-> variables, interfaces |-> interfaces]

------------------------------------------------------------------------------
(* One Pattern matched against one Node, an InterfacePattern at a time *)

MaxInterfaces == 3

PatKeys == {<<"any">>, E1, E2}
PatValues == { StrV(<<"any">>), StrV(<<"none">>),
               StrV(spine1 \o <<":">> \o E1),
               StrV(leaf1 \o <<":", "any">>) }

RECURSIVE IntfLists(_)
\* the interfaces lists of exactly n entries
IntfLists(n) ==
    IF n = 0 THEN {<< >>}
    ELSE { Append(l, Intf(k, v)) :
             l \in IntfLists(n - 1), k \in PatKeys, v \in PatValues }

PatEntries ==
    { GlobalEntry(<<"name">>, EmptyDict, l) :
        l \in UNION { IntfLists(n) : n \in 1..MaxInterfaces } }

NoFrame == [status |-> "idle", i |-> 0, neighbors |-> << >>,
            node_neighbors |-> << >>, variables |-> EmptyDict,
            claimed |-> << >>]

InitPattern ==
    /\ pat \in { Pattern(e).val : e \in PatEntries }
    /\ mnode \in { Node(d1, t) : t \in Tables }
    /\ mframe = NoFrame
    /\ entry = << >>
    /\ file = Unused /\ last = Unused
    /\ pc = Unused /\ pnode = Unused /\ contents = Unused
    /\ pkey = Unused /\ pret = Unused /\ stale = Unused
    /\ TopoUnused /\ LoadUnused /\ FnUnused

\* pattern.match_node(node) is entered; variables is None, so {}
MatchEnter ==
    /\ mframe.status = "idle"
    /\ mframe' = enter(pat, mnode.neighbors, EmptyDict)
    /\ entry' = mnode.neighbors
    /\ UNCHANGED <<pat, mnode, resVars, raceVars, topoVars, loadVars, fnVars>>

\* one InterfacePattern is evaluated
MatchIter ==
    /\ mframe.status = "run"
    /\ mframe' = match_iter(pat, mframe)
    /\ mnode' = [mnode EXCEPT !.neighbors = mframe'.node_neighbors]
    /\ UNCHANGED <<pat, entry, resVars, raceVars, topoVars, loadVars, fnVars>>

NextPattern == MatchEnter \/ MatchIter

SpecPattern == InitPattern /\ [][NextPattern]_vars

Returned == mframe.status \in {"True", "False"}

\* C7: Pattern.match_node works on a copy: whether the match succeeds or
\* fails, the node's neighbor table is the same after the call as before it.
C7_NodeNotMutated ==
    mframe.status # "idle" => mnode.neighbors = entry

C7_Witness ==
    /\ mframe.status = "True"
    /\ Len(mframe.claimed) = 2
    /\ Len(entry) = 2
    /\ mframe.neighbors = << >>
    /\ mnode.neighbors = entry

\* the index of the first InterfacePattern with a null device, 0 if none
FirstNone(self) ==
    IF \E i \in 1..Len(self.interfaces) : self.interfaces[i].device = None
    THEN CHOOSE i \in 1..Len(self.interfaces) :
            /\ self.interfaces[i].device = None
            /\ \A j \in 1..(i - 1) : self.interfaces[j].device # None
    ELSE 0

\* C10 as stated: a Pattern with a null-device InterfacePattern on an
\* interface the node has no entry for is matched by the node, wherever the
\* InterfacePattern is declared.
C10_AbsentAlwaysMatches ==
    ( /\ Returned
      /\ \E i \in 1..Len(pat.interfaces) :
            /\ pat.interfaces[i].device = None
            /\ ~HasKey(entry, pat.interfaces[i].interface) )
    => mframe.status = "True"

\* C10 amended: when the first null-device InterfacePattern is on an
\* interface the node has no entry for, and every InterfacePattern declared
\* before it found an interface, the node matches the Pattern, whatever is
\* declared after it.
C10_AbsentMatchesWhenReached ==
    LET k == FirstNone(pat) IN
    ( /\ Returned
      /\ k > 0
      /\ ~HasKey(entry, pat.interfaces[k].interface)
      /\ Len(mframe.claimed) >= k - 1
      /\ \A j \in 1..(k - 1) : mframe.claimed[j] # << >> )
    => mframe.status = "True"

C10_Witness ==
    /\ Returned
    /\ Len(pat.interfaces) = 3
    /\ FirstNone(pat) = 2
    /\ pat.interfaces[2].interface = E2
    /\ ~HasKey(entry, E2)
    /\ Len(mframe.claimed) = 1 /\ mframe.claimed[1] = <<E1>>
    /\ pat.interfaces[3].interface = E1
    /\ pat.interfaces[3].device = spine1
    /\ mframe.status = "True"

\* the call returned from the check of its first null-device InterfacePattern
ReturnedAtNone ==
    /\ Returned
    /\ FirstNone(pat) > 0
    /\ Len(mframe.claimed) = FirstNone(pat) - 1
    /\ \A j \in 1..Len(mframe.claimed) : mframe.claimed[j] # << >>

\* C16: the outcome of a null-device InterfacePattern on interface I is
\* whether I is absent from the node's original neighbor table; interfaces
\* that earlier InterfacePatterns removed from the working table do not
\* change it.
C16_NoneUsesOriginal ==
    ReturnedAtNone =>
        (mframe.status = "True")
            = ~HasKey(entry, pat.interfaces[FirstNone(pat)].interface)

RECURSIVE Remaining(_)
\* the node's table at entry without the interfaces that the first n
\* evaluated InterfacePatterns returned
Remaining(n) ==
    IF n = 0 THEN entry ELSE DelKeys(Remaining(n - 1), mframe.claimed[n])

\* the j-th evaluation was of the j-th InterfacePattern, on the table left
\* by the evaluations before it
InOrder(j) ==
    /\ pat.interfaces[j].device # None
    /\ mframe.claimed[j]
          = match_neighbors(pat.interfaces[j], Remaining(j - 1),
                            mframe.variables).val

\* what the j-th evaluation returned is in the node's table, is no longer
\* in the working table and was returned by no other evaluation
ClaimedOnce(j) ==
    \A x \in 1..Len(mframe.claimed[j]) :
        /\ HasKey(entry, mframe.claimed[j][x])
        /\ ~HasKey(mframe.neighbors, mframe.claimed[j][x])
        /\ \A k \in 1..Len(mframe.claimed) : \A y \in 1..Len(mframe.claimed[k]) :
              mframe.claimed[k][y] = mframe.claimed[j][x] => k = j

\* C17: within one Pattern.match_node call the InterfacePatterns are
\* evaluated once each in declaration order; what one returns is removed
\* from the working table before the next is evaluated, so no interface is
\* claimed twice; the first that returns no interface makes the Pattern
\* fail.
C17_InOrderNoReuse ==
    mframe.status # "idle" =>
        /\ Len(mframe.claimed) <= Len(pat.interfaces)
        /\ mframe.status = "run" => mframe.i = Len(mframe.claimed) + 1
        /\ mframe.neighbors = Remaining(Len(mframe.claimed))
        /\ \A j \in 1..Len(mframe.claimed) :
              /\ InOrder(j)
              /\ ClaimedOnce(j)
              /\ mframe.claimed[j] = << >>
                    => (j = Len(mframe.claimed) /\ mframe.status = "False")

\* two InterfacePatterns that each accept any interface take the two
\* interfaces of the node in turn
C17_Witness ==
    /\ mframe.status = "True"
    /\ Len(pat.interfaces) = 2
    /\ pat.interfaces[1].interface = <<"any">>
    /\ pat.interfaces[2].interface = <<"any">>
    /\ Len(entry) = 2
    /\ accepts(pat.interfaces[2], entry, mframe.variables, entry[1].interface)
    /\ mframe.claimed = << <<entry[1].interface>>, <<entry[2].interface>> >>

------------------------------------------------------------------------------
(* A Topology built from a document, and nodes matched against it one call *)
(* after another                                                            *)

MaxPatterns == 2

uplink == <<"uplink">>

\* a pattern entry of a topology document with the key node
BoundEntry(name, node, variables, interfaces) ==
    [has |-> {"name", "definition", "node", "variables", "interfaces"},
     name |-> name, definition |-> <<"x">>, node |-> node,
     variables |-> variables, interfaces |-> interfaces]

\* the variables of a pattern entry and of a topology document
PatternVars == { EmptyDict, [k \in {uplink} |-> leaf1] }
TopologyVars == { EmptyDict, [k \in {uplink} |-> spine1] }

MatchValues == { StrV(<<"any">>), StrV(<<"none">>),
                 StrV(spine1 \o <<":">> \o E1),
                 StrV(uplink \o <<":", "any">>) }

MatchIntfs == { <<Intf(k, v)>> : k \in {<<"any">>, E1}, v \in MatchValues }

MatchEntries ==
    { GlobalEntry(<<"name">>, v, l) : v \in PatternVars, l \in MatchIntfs }
    \cup { BoundEntry(<<"name">>, d1, v, l) : v \in PatternVars, l \in MatchIntfs }

RECURSIVE EntryLists(_, _)
\* the lists of at most n entries
EntryLists(entries, n) ==
    IF n = 0 THEN {<< >>}
    ELSE {<< >>} \cup { <<e>> \o l : e \in entries, l \in EntryLists(entries, n - 1) }

\* a topology document: ok is whether the data deserializes
Doc(variables, patterns) ==
    [ok |-> TRUE, variables |-> variables, patterns |-> patterns]

MatchDocs ==
    { Doc(v, l) : v \in TopologyVars, l \in EntryLists(MatchEntries, MaxPatterns) }

MatchNodes ==
    { Node(m, t) : m \in {d1, d2},
                   t \in { << >>,
                           <<[interface |-> E1, nbrs |-> <<Neighbor(spine1, E1)>>]>>,
                           <<[interface |-> E1, nbrs |-> <<Neighbor(leaf1, E2)>>]>> } }

NoMatch == [called |-> FALSE, node |-> Node(None, << >>),
            before |-> EmptyTopology, evaluated |-> << >>,
            matches |-> << >>, exc |-> ""]

ResUnused ==
    /\ file = Unused /\ last = Unused
    /\ pc = Unused /\ pnode = Unused /\ contents = Unused
    /\ pkey = Unused /\ pret = Unused /\ stale = Unused

InitMatch ==
    /\ neighbordb \in { Topology(d).self : d \in MatchDocs }
    /\ mres = NoMatch
    /\ ResUnused /\ PatUnused /\ LoadUnused /\ FnUnused

\* neighbordb.match_node(node) with r its outcome: self.variables is the dict
\* the patterns were handed
MatchNodeReturn(node, r) ==
    /\ neighbordb' = [neighbordb EXCEPT !.variables = r.variables]
    /\ mres' = [called |-> TRUE, node |-> node, before |-> neighbordb,
                evaluated |-> r.evaluated, matches |-> r.matches,
                exc |-> r.exc]

MatchNode(node) ==
    /\ MatchNodeReturn(node, Topology_match_node(neighbordb, node))
    /\ UNCHANGED <<resVars, raceVars, patVars, loadVars, fnVars>>

NextMatch == \E node \in MatchNodes : MatchNode(node)

SpecMatch == InitMatch /\ [][NextMatch]_vars

\* the device of the last call is bound to a pattern
Bound == mres.called /\ mres.node.systemmac \in DOMAIN mres.before.nodes

\* pattern would match the node of the last call, as the Topology was then
WouldMatch(pattern) ==
    Pattern_match_node(pattern, mres.node.neighbors,
                       mres.before.variables).status = "True"

\* C1: for a device whose identity is a key of the bound-pattern mapping,
\* get_patterns returns exactly the bound pattern, and match_node evaluates
\* and returns no global pattern.
C1_BoundExcludesGlobals ==
    Bound =>
        /\ get_patterns(mres.before, mres.node)
              = <<mres.before.nodes[mres.node.systemmac]>>
        /\ mres.evaluated = <<mres.before.nodes[mres.node.systemmac]>>
        /\ \A i \in 1..Len(mres.matches) :
              mres.matches[i] = mres.before.nodes[mres.node.systemmac]
        /\ \A g \in 1..Len(mres.before.globals) :
              /\ \A i \in 1..Len(mres.evaluated) :
                    mres.evaluated[i] # mres.before.globals[g]
              /\ \A i \in 1..Len(mres.matches) :
                    mres.matches[i] # mres.before.globals[g]

\* the bound pattern does not match and a global pattern would
C1_Witness ==
    /\ Bound
    /\ mres.exc = ""
    /\ mres.matches = << >>
    /\ \E g \in 1..Len(mres.before.globals) : WouldMatch(mres.before.globals[g])

\* C6: after Topology.match_node returns, the Topology's variable map and
\* its pattern catalog are what they were before the call.
C6_TopologyUnchanged ==
    mres.called => neighbordb = mres.before

------------------------------------------------------------------------------
(* The module-level neighbordb reloaded by loads(data) while a reader uses *)
(* it: clear() rebinds the name to an empty Topology, which                 *)
(* Topology.loads then fills in place.                                      *)

MaxLoads == 2
MaxEntries == 2

\* a pattern entry of a topology document without the key name
NamelessEntry(interfaces) ==
    [has |-> {"definition", "interfaces"},
     name |-> None, definition |-> <<"x">>, node |-> None,
     variables |-> EmptyDict, interfaces |-> interfaces]

LoadEntries ==
    { GlobalEntry(<<"name">>, EmptyDict, <<Intf(E1, StrV(spine1 \o <<":">> \o E1))>>),
      BoundEntry(<<"name">>, d1, EmptyDict, <<Intf(<<"any">>, StrV(<<"any">>))>>),
      NamelessEntry(<<Intf(E1, StrV(<<"any">>))>>),
      \* Ethernet1-x: any
      GlobalEntry(<<"name">>, EmptyDict,
                  <<Intf(<<"Ethernet", "1", "-", "x">>, StrV(<<"any">>))>>),
      \* Ethernet2: spine1
      GlobalEntry(<<"name">>, EmptyDict, <<Intf(E2, StrV(spine1))>>),
      \* Ethernet2: {device: spine1, port: Ethernet1}
      GlobalEntry(<<"name">>, EmptyDict, <<Intf(E2, DictV(spine1, E1, None))>>) }

\* data that does not deserialize
BadData == [ok |-> FALSE, variables |-> EmptyDict, patterns |-> << >>]

LoadDocs ==
    { Doc(v, l) : v \in TopologyVars, l \in EntryLists(LoadEntries, MaxEntries) }
    \cup {BadData}

NoLoad == [pc |-> "idle", doc |-> Doc(EmptyDict, << >>), rest |-> << >>,
           exc |-> "", n |-> 0]

NotSeen == [called |-> FALSE, db |-> EmptyTopology, old |-> EmptyTopology,
            doc |-> Doc(EmptyDict, << >>)]

\* line 548: neighbordb = Topology()
InitLoad ==
    /\ neighbordb = EmptyTopology
    /\ mres = Unused
    /\ ld = NoLoad
    /\ old = EmptyTopology
    /\ seen = NotSeen
    /\ ResUnused /\ PatUnused /\ FnUnused

\* loads(data) is called; line 560: clear()
LoadsClear(doc) ==
    /\ ld.pc \in {"idle", "done", "raised"}
    /\ ld.n < MaxLoads
    /\ old' = neighbordb
    /\ neighbordb' = EmptyTopology
    /\ ld' = [pc |-> "deserialize", doc |-> doc, rest |-> doc.patterns,
              exc |-> "", n |-> ld.n + 1]
    /\ UNCHANGED <<seen, mres, resVars, raceVars, patVars, fnVars>>

\* line 266-270, 273-279: the data is deserialized and self.variables set
LoadsVariables ==
    /\ ld.pc = "deserialize"
    /\ IF ld.doc.ok
       THEN /\ neighbordb' = deserialize_variables(neighbordb, ld.doc)
            /\ ld' = [ld EXCEPT !.pc = "patterns"]
       ELSE /\ neighbordb' = neighbordb
            /\ ld' = [ld EXCEPT !.pc = "raised", !.exc = "TopologyError"]
    /\ UNCHANGED <<old, seen, mres, resVars, raceVars, patVars, fnVars>>

\* line 281-282 with r the outcome of self.add_pattern(pattern)
AddPatternReturn(r) ==
    /\ neighbordb' = r.self
    /\ ld' = IF r.exc # "" THEN [ld EXCEPT !.pc = "raised", !.exc = r.exc]
             ELSE [ld EXCEPT !.rest = Tail(@)]

\* one turn of the loop over contents.get('patterns')
LoadsAddPattern ==
    /\ ld.pc = "patterns"
    /\ ld.rest # << >>
    /\ AddPatternReturn(add_pattern(neighbordb, Head(ld.rest)))
    /\ UNCHANGED <<old, seen, mres, resVars, raceVars, patVars, fnVars>>

\* the loop is over and loads returns
LoadsReturn ==
    /\ ld.pc = "patterns"
    /\ ld.rest = << >>
    /\ ld' = [ld EXCEPT !.pc = "done"]
    /\ UNCHANGED <<neighbordb, old, seen, mres, resVars, raceVars, patVars, fnVars>>

\* a reader takes the current topology: the object the name neighbordb is
\* bound to at that moment
Observe ==
    /\ seen' = [called |-> TRUE, db |-> neighbordb, old |-> old, doc |-> ld.doc]
    /\ UNCHANGED <<neighbordb, ld, old, mres, resVars, raceVars, patVars, fnVars>>

NextLoad ==
    \/ \E doc \in LoadDocs : LoadsClear(doc)
    \/ LoadsVariables
    \/ LoadsAddPattern
    \/ LoadsReturn
    \/ Observe

SpecLoad == InitLoad /\ [][NextLoad]_vars

\* C8: a reader of the current topology during a reload observes the
\* complete old catalog or the complete new catalog, never an empty or
\* partially populated one.
C8_OldOrNew ==
    seen.called => seen.db \in {seen.old, Topology(seen.doc).self}

\* the entry is one Pattern(**pattern) accepts
WellFormed(pattern) == Pattern(pattern).exc = ""

\* the document without its malformed entries
WellFormedOnly(doc) == [doc EXCEPT !.patterns = SelectSeq(@, WellFormed)]

\* C9: a malformed pattern entry causes only that entry to be skipped: the
\* well-formed entries before and after it are registered and construction
\* does not end in an exception.
C9_MalformedSkipped ==
    (ld.doc.ok /\ ld.pc \in {"done", "raised"}) =>
        /\ ld.pc = "done"
        /\ neighbordb = Topology(WellFormedOnly(ld.doc)).self

------------------------------------------------------------------------------
(* The functions of the module called once on arguments of their domain *)

NoRet == [done |-> FALSE, exc |-> "", val |-> << >>]

\* the call has returned val or raised exc
Returns(r) == [done |-> TRUE, exc |-> r.exc, val |-> r.val]

E1to2 == <<"Ethernet", "1", "-", "2">>

\* function('arg')
FuncCall(function, arg) == function \o <<"(", "'">> \o arg \o <<"'", ")">>

FnDevices == { <<"any">>, spine1, uplink,
               FuncCall(<<"exact">>, spine1),
               FuncCall(<<"includes">>, <<"leaf">>),
               FuncCall(<<"x">>, spine1) }

FnInterfacePatterns ==
    { InterfacePattern(i, d, p, None).val :
        i \in {<<"any">>, E1, E2, E1to2}, d \in FnDevices, p \in {<<"any">>, E1} }

MatchNeighborsCalls ==
    { [op |-> "match_neighbors", self |-> s, neighbors |-> t, variables |-> v] :
        s \in FnInterfacePatterns, t \in Tables, v \in PatternVars }

leaf == <<"leaf">>

\* the interfaces lists of the patterns that are serialized
RoundTripValues == { StrV(<<"any">>), StrV(<<"none">>),
                     StrV(spine1 \o <<":">> \o E1),
                     StrV(spine1 \o <<":">> \o E1 \o <<":">> \o leaf) }

RoundTripIntfs ==
    { <<Intf(k, v)>> : k \in {<<"any">>, E1}, v \in RoundTripValues }
    \cup { <<Intf(k, v), Intf(E2, w)>> :
             k \in {<<"any">>, E1}, v \in RoundTripValues, w \in RoundTripValues }

RoundTripCalls ==
    { [op |-> "serialize", self |-> Pattern(GlobalEntry(<<"name">>, v, l)).val] :
        v \in PatternVars, l \in RoundTripIntfs }

\* pattern.serialize(), then Pattern().deserialize(...) of what it returned
CallSerialize ==
    /\ call.op = "serialize"
    /\ ~ret.done
    /\ ret' = Returns(Pattern_deserialize(Pattern_serialize(call.self)))
    /\ UNCHANGED <<call, resVars, raceVars, patVars, topoVars, loadVars>>

MaxIndex == 5
MaxIndices == 2

\* one element of a range specifier: the indices lo..hi, written lo-hi or,
\* for a single index, lo
Indices ==
    { [lo |-> n, hi |-> n, dash |-> FALSE] : n \in (1..MaxIndex) \cup {10} }
    \cup { [lo |-> p[1], hi |-> p[2], dash |-> TRUE] :
             p \in { q \in (1..MaxIndex) \X (1..MaxIndex) : q[1] <= q[2] } }
    \cup { [lo |-> 9, hi |-> 11, dash |-> TRUE] }

RECURSIVE IndexLists(_)
\* the lists of 1..n elements
IndexLists(n) ==
    IF n = 0 THEN {}
    ELSE { <<x>> : x \in Indices }
         \cup { <<x>> \o l : x \in Indices, l \in IndexLists(n - 1) }

\* the element as it is written in a specifier
IndexStr(x) ==
    IF x.dash THEN StrOf(x.lo) \o <<"-">> \o StrOf(x.hi) ELSE StrOf(x.lo)

RECURSIVE IndicesStr(_)
\* the elements joined by commas
IndicesStr(l) ==
    IF Len(l) = 1 THEN IndexStr(l[1])
    ELSE IndexStr(l[1]) \o <<",">> \o IndicesStr(Tail(l))

RangeCalls ==
    { [op |-> "range", interface_range |-> <<"Ethernet">> \o IndicesStr(l),
       indices |-> l] : l \in IndexLists(MaxIndices) }
    \cup { [op |-> "range", interface_range |-> r, indices |-> << >>] :
             r \in {None, <<"any">>, <<"Management", "1">>, leaf1} }

\* InterfacePattern.range(interface_range)
CallRange ==
    /\ call.op = "range"
    /\ ~ret.done
    /\ ret' = Returns(range(call.interface_range))
    /\ UNCHANGED <<call, resVars, raceVars, patVars, topoVars, loadVars>>

spine == <<"spine">>

\* a Topology document with one pattern whose device specifier is the name
\* uplink, and a node that reports one neighbor on Ethernet1
VariableCalls ==
    { [op |-> "match_variable", variables |-> t, pattern_variables |-> v,
       device |-> d] :
        t \in { [k \in {uplink} |-> spine1],
                [k \in {uplink, spine} |-> IF k = uplink THEN spine1 ELSE leaf1],
                [k \in {spine} |-> leaf1] },
        v \in { EmptyDict,
                [k \in {uplink} |-> leaf1],
                [k \in {uplink} |-> spine],
                [k \in {uplink} |-> FuncCall(<<"includes">>, leaf)] },
        d \in {spine1, leaf1, spine} }

\* the document of the call
VariableDoc ==
    Doc(call.variables,
        <<GlobalEntry(<<"name">>, call.pattern_variables,
                      <<Intf(<<"any">>, StrV(uplink \o <<":", "any">>))>>)>>)

\* the node of the call
VariableNode ==
    Node(d1, <<[interface |-> E1, nbrs |-> <<Neighbor(call.device, E1)>>]>>)

\* Topology(contents).match_node(node): the patterns matched
TopologyMatches(r) == [exc |-> r.exc, val |-> r.matches]

CallMatchVariable ==
    /\ call.op = "match_variable"
    /\ ~ret.done
    /\ ret' = Returns(TopologyMatches(
                  Topology_match_node(Topology(VariableDoc).self, VariableNode)))
    /\ UNCHANGED <<call, resVars, raceVars, patVars, topoVars, loadVars>>

\* intf_pattern.match_neighbors(neighbors, variables)
CallMatchNeighbors ==
    /\ call.op = "match_neighbors"
    /\ ~ret.done
    /\ ret' = Returns(match_neighbors(call.self, call.neighbors, call.variables))
    /\ UNCHANGED <<call, resVars, raceVars, patVars, topoVars, loadVars>>

InitFn ==
    /\ call \in MatchNeighborsCalls \cup RoundTripCalls \cup RangeCalls
                \cup VariableCalls
    /\ ret = NoRet
    /\ ResUnused /\ PatUnused /\ TopoUnused /\ LoadUnused

NextFn ==
    \/ CallMatchNeighbors
    \/ CallSerialize
    \/ CallRange
    \/ CallMatchVariable

SpecFn == InitFn /\ [][NextFn]_vars

\* match_neighbors has been called and has returned or raised
MatchNeighborsDone == call.op = "match_neighbors" /\ ret.done

\* the positions in the table of the call whose interface has a neighbor
\* that the device and the port specifier of the call both accept
Accepting ==
    { i \in 1..Len(call.neighbors) :
        accepts(call.self, call.neighbors, call.variables,
                call.neighbors[i].interface) }

\* the first interface of the table, in its order, with an accepted neighbor
FirstAccepting ==
    call.neighbors[CHOOSE i \in Accepting : \A j \in Accepting : i <= j].interface

\* C11: with the interface specifier any, match_neighbors matches as soon as
\* one interface of the table has a neighbor that the device and the port
\* specifier accept, and returns exactly that interface which comes first in
\* the table's order; with no such interface it returns none.
C11_AnyFirstAccepting ==
    (MatchNeighborsDone /\ call.self.interface = <<"any">> /\ ret.exc = "") =>
        ret.val = IF Accepting = {} THEN << >> ELSE <<FirstAccepting>>

\* two interfaces, the first without an accepted neighbor, the second with
C11_Witness ==
    /\ MatchNeighborsDone
    /\ call.self.interface = <<"any">>
    /\ call.self.device = FuncCall(<<"exact">>, spine1)
    /\ Len(call.neighbors) = 2
    /\ Accepting = {2}
    /\ ret.val = <<call.neighbors[2].interface>>

\* the declared interfaces that are in the table of the call
Present ==
    { i \in 1..Len(call.self.interfaces) :
        HasKey(call.neighbors, call.self.interfaces[i]) }

\* every declared interface in the table has a neighbor that the device and
\* the port specifier accept
AllPresentAccept ==
    \A i \in Present :
        accepts(call.self, call.neighbors, call.variables, call.self.interfaces[i])

\* C12: with an interface specifier other than any, match_neighbors returns
\* a match only if every declared interface present in the table has an
\* accepted neighbor; if one of them has none, or none is present, the
\* result is empty.
C12_AllPresentOrNothing ==
    (MatchNeighborsDone /\ call.self.interface # <<"any">> /\ ret.exc = "") =>
        (ret.val # << >>) = (Present # {} /\ AllPresentAccept)

\* Ethernet1-2 on a table where Ethernet1 has an accepted neighbor and
\* Ethernet2 has none
C12_Witness ==
    /\ MatchNeighborsDone
    /\ call.self.interface = E1to2
    /\ Present = {1, 2}
    /\ accepts(call.self, call.neighbors, call.variables, E1)
    /\ ~accepts(call.self, call.neighbors, call.variables, E2)
    /\ ret = Returns(Ok(<< >>))

\* C13: serializing a parsed Pattern and parsing the serialized form again
\* succeeds and gives the same list of Interface Patterns: the same
\* interface, device and port specifiers and tags, in the same order.
C13_RoundTrip ==
    (call.op = "serialize" /\ ret.done) =>
        /\ ret.exc = ""
        /\ ret.val.interfaces = call.self.interfaces

\* the interface names of the indices lo..hi, ascending
NamesOf(x) ==
    [n \in 1..(x.hi + 1 - x.lo) |-> <<"Ethernet">> \o StrOf(x.lo + n - 1)]

RECURSIVE Expansion(_)
\* the interface names of the elements, in the order of the elements
Expansion(l) ==
    IF l = << >> THEN << >> ELSE NamesOf(Head(l)) \o Expansion(Tail(l))

\* C14: InterfacePattern.range expands a specifier of the Ethernet family
\* with comma-separated indices and inclusive ranges to the interface names
\* in declaration order, each range ascending; a literal outside the family
\* gives the sequence of that literal alone, and null the empty sequence.
C14_RangeExpands ==
    (call.op = "range" /\ ret.done) =>
        /\ ret.exc = ""
        /\ ret.val = IF call.interface_range = None THEN << >>
                     ELSE IF call.indices = << >> THEN <<call.interface_range>>
                     ELSE Expansion(call.indices)

\* Ethernet1-3,5 gives Ethernet1, Ethernet2, Ethernet3, Ethernet5
C14_Witness ==
    /\ call.op = "range"
    /\ call.interface_range = <<"Ethernet", "1", "-", "3", ",", "5">>
    /\ ret = Returns(Ok(<<E1, E2, <<"Ethernet", "3">>, <<"Ethernet", "5">> >>))

\* the observed device of the call is what the Pattern's own value of the
\* variable uplink asks for
PatternValueAccepts ==
    call_function(resolve_pattern(call.pattern_variables[uplink]),
                  call.device).val

\* C18: when the device specifier names a variable defined in the
\* Topology's variables and in the Pattern's own variables, the observed
\* device is compared against the Pattern's value of it.
C18_PatternValueWins ==
    ( /\ call.op = "match_variable" /\ ret.done
      /\ uplink \in DOMAIN call.variables
      /\ uplink \in DOMAIN call.pattern_variables )
    => /\ ret.exc = ""
       /\ (ret.val # << >>) = PatternValueAccepts

====
